---- MODULE Spec2Model ----
(***************************************************************************)
(* Model of the user service: the registration, login, update and delete   *)
(* handlers of src/src/controllers/user.controller.ts, the password policy *)
(* of src/src/utils/validators.ts and the route tables that put the        *)
(* verifyToken middleware in front of the protected handlers.              *)
(*                                                                         *)
(* A string is a sequence of characters; a character is written as a one   *)
(* character string, the line feed as "LF".  A JSON body is a record whose  *)
(* DOMAIN is the set of properties the client sent.  Messages are written  *)
(* without their accents.  The store answers every call: of the catch      *)
(* blocks only the one reached by loginUser's own throw is modelled.       *)
(***************************************************************************)
EXTENDS Integers, Sequences, FiniteSets, TLC

VARIABLES
    users,      \* the users collection: document id -> stored record
    nextId,     \* the next document id the store assigns
    pending,    \* createUser requests suspended between lookup and insert
    secret,     \* process.env.JWT_SECRET
    expiresIn,  \* process.env.JWT_EXPIRES_IN
    now,        \* the clock, in seconds
    tokens,     \* the tokens the clients hold, each returned by a login
    last,       \* the last request answered, with its response
    pw          \* the candidate password handed to the password policy

vars == <<users, nextId, pending, secret, expiresIn, now, tokens, last, pw>>

-----------------------------------------------------------------------------
(* Bounds of the model *)

MaxUsers == 2
MaxProcs == 2
MaxTokens == 1
MaxTicks == 2
MaxPwLen == 8

-----------------------------------------------------------------------------
(* Characters and the regular expression of the password policy *)

LowerAZ == {"a", "b", "c", "d", "e", "f", "g", "t", "u", "v", "w", "x", "y", "z"}
UpperAZ == {"A", "B", "X"}
Digits == {"0", "1", "2", "3"}
LineTerminators == {"LF", "CR"}

\* \w of a JavaScript regular expression
IsWordChar(c) == c \in LowerAZ \cup UpperAZ \cup Digits \cup {"_"}

\* the character classes [a-z], [A-Z] and [\W_]
InClass(class, c) ==
    IF class = "[a-z]" THEN c \in LowerAZ
    ELSE IF class = "[A-Z]" THEN c \in UpperAZ
    ELSE ~IsWordChar(c) \/ c = "_"

\* . of a JavaScript regular expression without the s flag
Dot(c) == c \notin LineTerminators

\* (?=.*[class]) at position 0: .* runs over characters that are no line
\* terminator, then one character of the class follows
Lookahead(s, class) ==
    \E i \in 1..Len(s) : InClass(class, s[i]) /\ \A j \in 1..(i - 1) : Dot(s[j])

\* .{8,}$ at position 0: at least MinLength characters, none a line
\* terminator, up to the end of the input
MinLength == 8
DotRun(s) == Len(s) >= MinLength /\ \A j \in 1..Len(s) : Dot(s[j])

PolicyRegexTest(s) ==
    /\ Lookahead(s, "[a-z]")
    /\ Lookahead(s, "[A-Z]")
    /\ Lookahead(s, "[\\W_]")
    /\ DotRun(s)

\* utils/validators.ts
isValidPassword(password) == PolicyRegexTest(password)

\* the passwordRegex of createUser
passwordRegexTest(password) == PolicyRegexTest(password)

-----------------------------------------------------------------------------
(* The password policy on its own: a client types a candidate password *)

PolicyAlphabet == {"a", "A", "1", "!", "LF"}

InitPolicy ==
    /\ pw = <<>>
    /\ users = <<>>
    /\ nextId = 1
    /\ pending = [p \in 1..MaxProcs |-> <<>>]
    /\ secret = "s3cr3t"
    /\ expiresIn = ""
    /\ now = 0
    /\ tokens = {}
    /\ last = [op |-> "validate", status |-> 0, valid |-> FALSE, inline |-> FALSE, n |-> 0]

TypeChar(c) ==
    /\ Len(pw) < MaxPwLen
    /\ pw' = Append(pw, c)
    /\ last' = [op |-> "validate", status |-> 0, n |-> 1 - last.n,
                valid |-> isValidPassword(pw'), inline |-> passwordRegexTest(pw')]
    /\ UNCHANGED <<users, nextId, pending, secret, expiresIn, now, tokens>>

NextPolicy == \E c \in PolicyAlphabet : TypeChar(c)

SpecPolicy == InitPolicy /\ [][NextPolicy]_vars

\* the policy as the specification words it
IsLetter(c) == c \in LowerAZ \cup UpperAZ
IsDigit(c) == c \in Digits
WordedPolicy(s) ==
    /\ Len(s) >= 8
    /\ \E i \in 1..Len(s) : s[i] \in LowerAZ
    /\ \E i \in 1..Len(s) : s[i] \in UpperAZ
    /\ \E i \in 1..Len(s) : ~IsLetter(s[i]) /\ ~IsDigit(s[i])

\* C7: the policy accepts a password iff it has at least 8 characters, a
\* lowercase letter, an uppercase letter and a character that is neither a
\* letter nor a digit, and isValidPassword and createUser's inline check
\* give that same answer.
C7_PolicyAsWorded ==
    last.op = "validate" =>
        /\ last.valid = WordedPolicy(pw)
        /\ last.inline = WordedPolicy(pw)

-----------------------------------------------------------------------------
(* JSON bodies *)

\* the bodies that carry property f with a value of S, or do not carry it
Opt(f, S) == {<<>>} \cup {[x \in {f} |-> v] : v \in S}

Has(b, f) == f \in DOMAIN b

\* !b.f is false: the property is there and is neither "" nor 0
TruthyString(b, f) == Has(b, f) /\ b[f] # ""
TruthyNumber(b, f) == Has(b, f) /\ b[f] # 0
TruthyChars(b, f) == Has(b, f) /\ b[f] # <<>>

StrongA == <<"A", "b", "c", "d", "e", "f", "g", "!">>
StrongB == <<"X", "y", "z", "w", "v", "u", "t", "#">>
Weak == <<"a", "b", "c">>

-----------------------------------------------------------------------------
(* bcrypt: a stored or transmitted password value is the string itself     *)
(* ("plain") or the hash of a string ("bcrypt"); the salt is left out, no  *)
(* handler reads it.                                                       *)

SaltRounds == 10

Plain(s) == [kind |-> "plain", rounds |-> 0, of |-> s]

bcryptHash(s, rounds) == [kind |-> "bcrypt", rounds |-> rounds, of |-> s]

\* false for a string that is no hash
bcryptCompare(s, stored) == stored.kind = "bcrypt" /\ stored.of = s

-----------------------------------------------------------------------------
(* The users collection *)

Ids == 1..MaxUsers

\* the ids of the documents whose email is the given one
findUserByEmailService(store, email) ==
    {id \in DOMAIN store : store[id].email = email}

\* hashes the password and adds the document under a new id
createUserService(store, id, userData) ==
    store @@ (id :> [userData EXCEPT !.password = bcryptHash(userData.password.of, SaltRounds)])

\* the properties of a document an update may write
MutableFields == {"firstName", "lastName", "age", "password"}

\* an update that writes every property of data
updateUserServiceAll(store, id, data) ==
    IF id \in DOMAIN store
    THEN [store EXCEPT ![id] =
            [f \in DOMAIN store[id] |-> IF Has(data, f) THEN data[f] ELSE store[id][f]]]
    ELSE store

\* writes the mutable properties of data into document id, if there is one
updateUserService(store, id, data) ==
    IF id \in DOMAIN store
    THEN [store EXCEPT ![id] =
            [f \in DOMAIN store[id] |->
                IF f \in MutableFields /\ Has(data, f) THEN data[f] ELSE store[id][f]]]
    ELSE store

deleteUserService(store, id) == [i \in DOMAIN store \ {id} |-> store[i]]

getUsersService(store) == store

-----------------------------------------------------------------------------
(* Responses *)

NoToken == [uid |-> 0, email |-> "", iat |-> 0, exp |-> 0, sig |-> <<>>]

\* n is the parity of the number of responses sent so far
Response(op, bearer, body, status, msg) ==
    [op |-> op, bearer |-> bearer, body |-> body, status |-> status, msg |-> msg,
     id |-> 0, token |-> NoToken, n |-> 1 - last.n]

Idle == <<>>

-----------------------------------------------------------------------------
(* Tokens: sign binds the payload and the expiry to the key *)

\* the span of time a string of JWT_EXPIRES_IN stands for, in seconds
Timespan(s) == IF s = "1h" THEN 60 * 60 ELSE 30 * 60

Signature(uid, email, iat, exp, key) == <<uid, email, iat, exp, key>>

sign(uid, email, key, span) ==
    [uid |-> uid, email |-> email, iat |-> now, exp |-> now + Timespan(span),
     sig |-> Signature(uid, email, now, now + Timespan(span), key)]

\* InvalidToken: the signature is not the one the server's key gives
InvalidToken(t) == secret = "" \/ t.sig # Signature(t.uid, t.email, t.iat, t.exp, secret)

\* ExpiredToken: the signature is right and the expiry has elapsed
ExpiredToken(t) == ~InvalidToken(t) /\ now >= t.exp

NoUser == <<>>

\* the middleware: no bearer token, or one that fails verification, ends the
\* request with 401; otherwise req.user is the token's claims
verifyToken(bearer) ==
    IF bearer = <<>>
    THEN [next |-> FALSE, status |-> 401, msg |-> "Token requerido", user |-> NoUser]
    ELSE IF InvalidToken(bearer[1])
    THEN [next |-> FALSE, status |-> 401, msg |-> "Token invalido", user |-> NoUser]
    ELSE IF ExpiredToken(bearer[1])
    THEN [next |-> FALSE, status |-> 401, msg |-> "Token expirado", user |-> NoUser]
    ELSE [next |-> TRUE, status |-> 0, msg |-> "",
          user |-> <<[uid |-> bearer[1].uid, email |-> bearer[1].email]>>]

-----------------------------------------------------------------------------
(* Routes: each is a method, a path and the chain of callbacks it runs *)

Route(router, method, path, chain) ==
    [router |-> router, method |-> method, path |-> path, chain |-> chain]

\* the user routes with the middleware left off the listing
UserRoutesUngated ==
    { Route("users", "GET", "/profile", <<"getUsers">>),
      Route("users", "PUT", "/profile", <<"verifyToken", "updateUser">>),
      Route("users", "DELETE", "/profile", <<"verifyToken", "deleteUser">>),
      Route("users", "POST", "/", <<"createUser">>) }

\* routes/user.routes.ts, mounted at /api/users
UserRoutes ==
    { Route("users", "GET", "/profile", <<"verifyToken", "getUsers">>),
      Route("users", "PUT", "/profile", <<"verifyToken", "updateUser">>),
      Route("users", "DELETE", "/profile", <<"verifyToken", "deleteUser">>),
      Route("users", "POST", "/", <<"createUser">>) }

\* the router that follows the validators in utils/validators.ts
UserRoutesWithLogin ==
    { Route("users2", "POST", "/", <<"createUser">>),
      Route("users2", "POST", "/login", <<"loginUser">>),
      Route("users2", "GET", "/", <<"verifyToken", "getUsers">>),
      Route("users2", "PUT", "/profile", <<"verifyToken", "updateUser">>),
      Route("users2", "DELETE", "/", <<"verifyToken", "deleteUser">>) }

\* the auth router, mounted at /api/auth; its three other routes name
\* handlers the controller does not define
AuthRoutes == { Route("auth", "POST", "/login", <<"loginUser">>) }

Routes == UserRoutes \cup UserRoutesWithLogin \cup AuthRoutes

\* the handler a route ends in, and the routes that end in a handler
Handler(route) == route.chain[Len(route.chain)]
RoutesTo(handler) == {r \in Routes : Handler(r) = handler}

\* the middleware runs before the handler of the route
Gated(route) == \E i \in 1..(Len(route.chain) - 1) : route.chain[i] = "verifyToken"

\* the chain reaches the handler, and req.user as the handler finds it
Passes(route, bearer) == Gated(route) => verifyToken(bearer).next
ReqUser(route, bearer) == IF Gated(route) THEN verifyToken(bearer).user ELSE NoUser

\* the middleware ends the request
Reject(route, bearer) ==
    /\ Gated(route)
    /\ ~verifyToken(bearer).next
    /\ last' = Response(Handler(route), bearer, <<>>, verifyToken(bearer).status,
                        verifyToken(bearer).msg)
    /\ UNCHANGED <<users, nextId, pending, secret, expiresIn, now, tokens, pw>>

-----------------------------------------------------------------------------
(* createUser: the handler is suspended at `await findUserByEmailService`  *)
(* and resumes with the result of the lookup.                              *)

\* the validation with the age left unchecked
AllFieldsButAge(body) ==
    /\ TruthyString(body, "email")
    /\ TruthyChars(body, "password")
    /\ TruthyString(body, "firstName")
    /\ TruthyString(body, "lastName")
    /\ Has(body, "age")

AllFieldsTruthy(body) ==
    /\ TruthyString(body, "email")
    /\ TruthyChars(body, "password")
    /\ TruthyString(body, "firstName")
    /\ TruthyString(body, "lastName")
    /\ TruthyNumber(body, "age")

\* up to the lookup: the two validations, then the read of the store
CreateUserCheck(route, p, body) ==
    /\ Handler(route) = "createUser"
    /\ pending[p] = Idle
    /\ IF ~AllFieldsTruthy(body)
       THEN /\ last' = Response("createUser", <<>>, body, 400, "Todos los campos son obligatorios")
            /\ UNCHANGED pending
       ELSE IF ~passwordRegexTest(body.password)
       THEN /\ last' = Response("createUser", <<>>, body, 400, "La contrasena debe tener al menos 8 caracteres, incluir letra mayuscula, minuscula y un caracter especial")
            /\ UNCHANGED pending
       ELSE /\ pending' = [pending EXCEPT ![p] =
                <<[body |-> body, existingUser |-> findUserByEmailService(users, body.email)]>>]
            /\ UNCHANGED last
    /\ UNCHANGED <<users, nextId, secret, expiresIn, now, tokens, pw>>

\* the userData of createUser
UserData(body) ==
    [firstName |-> body.firstName, lastName |-> body.lastName, age |-> body.age,
     email |-> body.email, password |-> Plain(body.password), createdAt |-> now]

\* an insert that looks the email up again, in one step with the write
CreateUserInsertRechecked(p) ==
    /\ pending[p] # Idle
    /\ LET body == pending[p][1].body
       IN IF findUserByEmailService(users, body.email) # {}
          THEN /\ last' = Response("createUser", <<>>, body, 400, "El correo ya esta registrado")
               /\ UNCHANGED <<users, nextId>>
          ELSE /\ nextId <= MaxUsers
               /\ users' = createUserService(users, nextId, UserData(body))
               /\ nextId' = nextId + 1
               /\ last' = [Response("createUser", <<>>, body, 201, "Usuario creado correctamente")
                             EXCEPT !.id = nextId]
    /\ pending' = [pending EXCEPT ![p] = Idle]
    /\ UNCHANGED <<secret, expiresIn, now, tokens, pw>>

\* after the lookup: the existence decision on what the lookup returned,
\* then the insert
CreateUserInsert(p) ==
    /\ pending[p] # Idle
    /\ LET body == pending[p][1].body
           userData == UserData(body)
       IN IF pending[p][1].existingUser # {}
          THEN /\ last' = Response("createUser", <<>>, body, 400, "El correo ya esta registrado")
               /\ UNCHANGED <<users, nextId>>
          ELSE /\ nextId <= MaxUsers
               /\ users' = createUserService(users, nextId, userData)
               /\ nextId' = nextId + 1
               /\ last' = [Response("createUser", <<>>, body, 201, "Usuario creado correctamente")
                             EXCEPT !.id = nextId]
    /\ pending' = [pending EXCEPT ![p] = Idle]
    /\ UNCHANGED <<secret, expiresIn, now, tokens, pw>>

-----------------------------------------------------------------------------
(* The protected handlers *)

getUsers(route, bearer) ==
    /\ Handler(route) = "getUsers"
    /\ Passes(route, bearer)
    /\ last' = Response("getUsers", bearer, <<>>, 200, "users")
    /\ UNCHANGED <<users, nextId, pending, secret, expiresIn, now, tokens, pw>>

\* the document id taken from the body when the client sends one
updateUserIdFromBody(user, body) == IF Has(body, "id") THEN body.id ELSE user[1].uid

\* the document updateUser writes to
updateUserId(user, body) == user[1].uid

\* req.body with a truthy password replaced by its hash
updateUserData(body) ==
    IF TruthyChars(body, "password")
    THEN [body EXCEPT !.password = bcryptHash(body.password, SaltRounds)]
    ELSE IF Has(body, "password")
    THEN [body EXCEPT !.password = Plain(body.password)]
    ELSE body

updateUser(route, bearer, body) ==
    /\ Handler(route) = "updateUser"
    /\ Passes(route, bearer)
    /\ LET user == ReqUser(route, bearer)
       IN IF user = NoUser
          THEN /\ last' = Response("updateUser", bearer, body, 401, "Token invalido")
               /\ UNCHANGED users
          ELSE /\ users' = updateUserService(users, updateUserId(user, body), updateUserData(body))
               /\ last' = Response("updateUser", bearer, body, 200, "Usuario actualizado")
    /\ UNCHANGED <<nextId, pending, secret, expiresIn, now, tokens, pw>>

\* the document deleteUser removes
deleteUserId(user) == user[1].uid

deleteUser(route, bearer) ==
    /\ Handler(route) = "deleteUser"
    /\ Passes(route, bearer)
    /\ LET user == ReqUser(route, bearer)
       IN IF user = NoUser
          THEN /\ last' = Response("deleteUser", bearer, <<>>, 401, "Token invalido")
               /\ UNCHANGED users
          ELSE /\ users' = deleteUserService(users, deleteUserId(user))
               /\ last' = Response("deleteUser", bearer, <<>>, 200, "Usuario eliminado correctamente")
    /\ UNCHANGED <<nextId, pending, secret, expiresIn, now, tokens, pw>>

-----------------------------------------------------------------------------
(* loginUser *)

\* the expiresIn option without its default
ExpiresInNoDefault == expiresIn

\* the expiresIn option
ExpiresInOption == IF expiresIn # "" THEN expiresIn ELSE "1h"

\* the response of loginUser for what the lookup returned: found is <<>>
\* (null) or <<id>>, the document found
loginResponse(store, found, body) ==
    IF ~(TruthyString(body, "email") /\ TruthyChars(body, "password"))
    THEN Response("loginUser", <<>>, body, 400, "Email y contrasena requeridos")
    ELSE IF found = <<>>
    THEN Response("loginUser", <<>>, body, 401, "Usuario no encontrado")
    ELSE IF ~bcryptCompare(body.password, store[found[1]].password)
    THEN Response("loginUser", <<>>, body, 401, "Contrasena incorrecta")
    ELSE IF secret = ""
    THEN Response("loginUser", <<>>, body, 500, "JWT_SECRET no definido")
    ELSE [Response("loginUser", <<>>, body, 200, "token")
            EXCEPT !.token = sign(found[1], store[found[1]].email, secret, ExpiresInOption)]

\* what findUserByEmailService may return to loginUser: null, or one of the
\* documents with that email
Lookup(store, body) ==
    IF ~Has(body, "email") \/ findUserByEmailService(store, body.email) = {}
    THEN {<<>>}
    ELSE {<<id>> : id \in findUserByEmailService(store, body.email)}

\* the client keeps the token it is given while it has room for one
loginUser(route, body) ==
    /\ Handler(route) = "loginUser"
    /\ \E found \in Lookup(users, body) :
        /\ last' = loginResponse(users, found, body)
        /\ tokens' = IF last'.status = 200 /\ Cardinality(tokens) < MaxTokens
                     THEN tokens \cup {last'.token}
                     ELSE tokens
    /\ UNCHANGED <<users, nextId, pending, secret, expiresIn, now, pw>>

-----------------------------------------------------------------------------
(* Time *)

TickSeconds == 30 * 60

Tick ==
    /\ now + TickSeconds <= MaxTicks * TickSeconds
    /\ now' = now + TickSeconds
    /\ UNCHANGED <<users, nextId, pending, secret, expiresIn, tokens, last, pw>>

-----------------------------------------------------------------------------
(* Clients and what they send *)

Procs == 1..MaxProcs

EmailA == "a@b.com"
EmailB == "c@d.com"

\* the union of two bodies
Join(S, T) == {a @@ b : a \in S, b \in T}

\* registrations that pass both validations
ValidBodies ==
    {[firstName |-> "Ana", lastName |-> "Bo", age |-> 30, email |-> e, password |-> StrongA] :
        e \in {EmailA, EmailB}}

\* registrations with a property left out, empty or zero, and weak passwords
Profiles ==
    { [firstName |-> "Ana", lastName |-> "Bo", age |-> 30],
      [lastName |-> "Bo", age |-> 30],
      [firstName |-> "Ana", lastName |-> "", age |-> 30],
      [firstName |-> "Ana", lastName |-> "Bo", age |-> 0] }

RegisterBodies ==
    Join(Profiles, Join(Opt("email", {EmailA, EmailB}),
                        {[password |-> w] : w \in {Weak, StrongA}}))
        \cup {[firstName |-> "Ana", lastName |-> "Bo", age |-> 30, email |-> EmailA],
              [firstName |-> "Ana", lastName |-> "Bo", age |-> 30, email |-> EmailA,
               password |-> <<>>]}

\* logins with properties left out or empty, and right and wrong passwords
LoginBodies ==
    Join(Opt("email", {"", EmailA, EmailB}), Opt("password", {<<>>, StrongA, StrongB}))

ValidLogins == {[email |-> e, password |-> p] : e \in {EmailA, EmailB}, p \in {StrongA, StrongB}}

\* updates that name another document and another email
UpdateBodies ==
    Join(Opt("password", {StrongB}), Join(Opt("email", {EmailB}), Opt("id", {1, 2})))

\* a held token with its uid or its expiry rewritten, and a token signed
\* with a key that is not the server's
Tampered ==
    {[t EXCEPT !.uid = u] : t \in tokens, u \in Ids}
        \cup {[t EXCEPT !.exp = t.exp + Timespan("1h")] : t \in tokens}
Guessed ==
    [uid |-> 1, email |-> EmailA, iat |-> 0, exp |-> (MaxTicks + 1) * TickSeconds,
     sig |-> Signature(1, EmailA, 0, (MaxTicks + 1) * TickSeconds, "guess")]

\* the Authorization headers a client may send
Bearers == {<<>>} \cup {<<t>> : t \in tokens \cup Tampered \cup {Guessed}}

-----------------------------------------------------------------------------
(* Specifications *)

NoResponse ==
    [op |-> "none", bearer |-> <<>>, body |-> <<>>, status |-> 0, msg |-> "",
     id |-> 0, token |-> NoToken, n |-> 0]

InitStore ==
    /\ users = <<>>
    /\ nextId = 1
    /\ pending = [p \in Procs |-> Idle]
    /\ now = 0
    /\ tokens = {}
    /\ last = NoResponse
    /\ pw = <<>>

\* the service with its environment set
Init ==
    /\ InitStore
    /\ secret = "s3cr3t"
    /\ expiresIn \in {"", "30m"}

Register(procs, bodies) ==
    \/ \E route \in RoutesTo("createUser"), p \in procs, body \in bodies :
            CreateUserCheck(route, p, body)
    \/ \E p \in procs : CreateUserInsert(p)

Login(bodies) == \E route \in RoutesTo("loginUser"), body \in bodies : loginUser(route, body)

Protected(bodies) ==
    \/ \E route \in Routes, bearer \in Bearers : Reject(route, bearer)
    \/ \E route \in RoutesTo("getUsers"), bearer \in Bearers : getUsers(route, bearer)
    \/ \E route \in RoutesTo("updateUser"), bearer \in Bearers, body \in bodies :
            updateUser(route, bearer, body)
    \/ \E route \in RoutesTo("deleteUser"), bearer \in Bearers : deleteUser(route, bearer)

\* registration, login and the protected routes
Next ==
    \/ Register({1}, ValidBodies)
    \/ Login(ValidLogins)
    \/ Protected(UpdateBodies)

Spec == Init /\ [][Next]_vars

\* registration alone, requests interleaved
NextRegister == Register(Procs, RegisterBodies)

SpecRegister == Init /\ [][NextRegister]_vars

\* registration and login, the signing secret set or not
InitLogin ==
    /\ InitStore
    /\ secret \in {"", "s3cr3t"}
    /\ expiresIn \in {"", "30m"}

NextLogin ==
    \/ Register(Procs, ValidBodies)
    \/ Login(LoginBodies)

SpecLogin == InitLogin /\ [][NextLogin]_vars

\* one account, its tokens and the clock
SessionBodies == {b \in ValidBodies : b.email = EmailA}
SessionLogins == {b \in ValidLogins : b.email = EmailA}
SessionUpdates == {<<>>, [password |-> StrongB]}

NextSession ==
    \/ Register({1}, SessionBodies)
    \/ Login(SessionLogins)
    \/ Protected(SessionUpdates)
    \/ Tick

SpecSession == Init /\ [][NextSession]_vars

-----------------------------------------------------------------------------
(* Claims *)

\* the step answers a request
Answers == last'.n # last.n

ProtectedOps == {"getUsers", "updateUser", "deleteUser"}

\* the bearer is a token a login returned and the clock has not reached its expiry
Live(bearer) == bearer # <<>> /\ bearer[1] \in tokens /\ now < bearer[1].exp

\* C1: on every route to getUsers, updateUser or deleteUser the middleware
\* comes first, and a request with no bearer token, or with one that fails
\* verification, is answered 401 with the store as it was.
C1_GateBeforeHandler ==
    [][ /\ \A r \in Routes : Handler(r) \in ProtectedOps => r.chain[1] = "verifyToken"
        /\ (Answers /\ last'.op \in ProtectedOps /\ ~Live(last'.bearer))
              => (last'.status = 401 /\ users' = users) ]_vars

\* a delete with a token whose uid was rewritten to an existing document
C1_Witness ==
    /\ last.op = "deleteUser"
    /\ last.status = 401
    /\ last.bearer # <<>>
    /\ last.bearer[1] \notin tokens
    /\ last.bearer[1].uid \in DOMAIN users

C8_EmailImmutable ==
    [][ /\ \A id \in DOMAIN users \cap DOMAIN users' : users'[id].email = users[id].email
        /\ \A id \in DOMAIN users' \ DOMAIN users :
                /\ id = nextId /\ nextId' > nextId
                /\ last'.op = "createUser" /\ users'[id].email = last'.body.email ]_vars

\* an update whose body carries another email, answered 200
C8_Witness ==
    /\ last.op = "updateUser"
    /\ last.status = 200
    /\ Has(last.body, "email")
    /\ last.bearer[1].uid \in DOMAIN users
    /\ users[last.bearer[1].uid].email # last.body.email

\* C5: a token a login returned is accepted on every protected request before
\* its expiry and refused with 401 after it, whether or not the document it
\* names is still there; without JWT_EXPIRES_IN it expires one hour after issue.
C5_TokenLifetime ==
    [][ /\ (Answers /\ last'.op \in ProtectedOps /\ last'.bearer # <<>>
                /\ last'.bearer[1] \in tokens) =>
              /\ now < last'.bearer[1].exp => last'.status = 200
              /\ now > last'.bearer[1].exp => last'.status = 401
        /\ (Answers /\ last'.op = "loginUser" /\ last'.status = 200) =>
              /\ last'.token.iat = now
              /\ expiresIn = "" => last'.token.exp = now + 3600 ]_vars

\* a token accepted after the document it names was deleted
C5_Witness ==
    /\ last.op \in ProtectedOps
    /\ last.status = 200
    /\ last.bearer[1] \in tokens
    /\ last.bearer[1].uid \notin DOMAIN users
    /\ now > last.bearer[1].iat

\* the five properties are in the body
AllFieldsPresent(b) == {"firstName", "lastName", "age", "email", "password"} \subseteq DOMAIN b

\* the five properties are in the body, the strings not empty, the age not 0
AllFieldsGiven(b) ==
    /\ AllFieldsPresent(b)
    /\ b.firstName # "" /\ b.lastName # "" /\ b.email # ""
    /\ b.password # <<>> /\ b.age # 0

\* what the lookup of the request answered in this step returned: the
\* request resumes with the result it was suspended with, or has not looked up
FoundAtLookup(b) ==
    IF \E p \in Procs : pending[p] # Idle /\ pending'[p] = Idle
    THEN \E p \in Procs : pending[p] # Idle /\ pending'[p] = Idle /\ pending[p][1].existingUser # {}
    ELSE Has(b, "email") /\ \E id \in DOMAIN users : users[id].email = b.email

\* createUser answers 201 iff the body is complete under the reading, the policy and no document
\* found; else 400, the first failing check named; 201 adds one document,
\* 400 none
Complete(reading, b) == IF reading = "present" THEN AllFieldsPresent(b) ELSE AllFieldsGiven(b)

AllOrNothing(reading) ==
    (Answers /\ last'.op = "createUser") =>
        LET b == last'.body
            ok == Complete(reading, b) /\ PolicyRegexTest(b.password) /\ ~FoundAtLookup(b)
        IN /\ last'.status = IF ok THEN 201 ELSE 400
           /\ ~Complete(reading, b) => last'.msg = "Todos los campos son obligatorios"
           /\ (Complete(reading, b) /\ ~PolicyRegexTest(b.password))
                  => last'.msg = "La contrasena debe tener al menos 8 caracteres, incluir letra mayuscula, minuscula y un caracter especial"
           /\ (Complete(reading, b) /\ PolicyRegexTest(b.password) /\ FoundAtLookup(b))
                  => last'.msg = "El correo ya esta registrado"
           /\ IF ok
              THEN /\ last'.id \notin DOMAIN users
                   /\ DOMAIN users' = DOMAIN users \cup {last'.id}
                   /\ users'[last'.id].email = b.email
                   /\ \A id \in DOMAIN users : users'[id] = users[id]
              ELSE users' = users

C10_CheckThenCreate ==
    [][ \A p \in Procs :
            (pending[p] # Idle /\ pending'[p] = Idle /\ pending[p][1].existingUser = {}) =>
                /\ last'.status = 201
                /\ last'.id \notin DOMAIN users
                /\ DOMAIN users' = DOMAIN users \cup {last'.id}
                /\ users'[last'.id].email = pending[p][1].body.email ]_vars

\* two documents with one email
C10_Witness ==
    \E i \in DOMAIN users, j \in DOMAIN users : i # j /\ users[i].email = users[j].email

\* C3: loginUser answers 200 with a token iff email and password are given, a
\* document with the email exists and the password verifies against its
\* hash; the token names that document; 400 when a field is missing, 401
\* when no document or a mismatch; the store unchanged.
C3_LoginOutcome ==
    [][ (Answers /\ last'.op = "loginUser") =>
            LET b == last'.body
                given == Has(b, "email") /\ Has(b, "password")
                verified == IF given
                            THEN {id \in DOMAIN users : /\ users[id].email = b.email
                                                       /\ bcryptCompare(b.password, users[id].password)}
                            ELSE {}
            IN /\ users' = users
               /\ last'.status = 200 <=> verified # {}
               /\ last'.status = 200 =>
                    (last'.token.uid \in verified /\ last'.token.email = b.email)
               /\ ~given => last'.status = 400
               /\ (given /\ verified = {}) => last'.status \in {400, 401} ]_vars

\* C9: with the signing secret absent no login is answered with a failure
\* of that request for the missing secret.
C9_NoPerRequestFailure ==
    secret = "" => ~(last.op = "loginUser" /\ last.status = 500)

\* the store without the documents of an email
WithoutEmail(store, email) ==
    [i \in {j \in DOMAIN store : store[j].email # email} |-> store[i]]

\* C6: for two stores that differ only in whether the email is registered, a
\* login refused in both, unknown email in one and wrong password in the
\* other, gets the same status and the same body.
C6_SameRefusal ==
    \A body \in LoginBodies :
        Has(body, "email") =>
            \A f1 \in Lookup(users, body), f2 \in Lookup(WithoutEmail(users, body.email), body) :
                LET r1 == loginResponse(users, f1, body)
                    r2 == loginResponse(WithoutEmail(users, body.email), f2, body)
                IN (f1 # <<>> /\ f2 = <<>> /\ r1.status = 401 /\ r2.status = 401)
                        => r1.msg = r2.msg

====
